---- MODULE Spec2Model ----
(***************************************************************************)
(* room-assistant: BluetoothLowEnergyService and HomeAssistantService.     *)
(*                                                                         *)
(* One node of the cluster.  The node runs on a single JavaScript event    *)
(* loop: a callback runs until it returns or reaches an await on external  *)
(* I/O.  handleDiscovery only suspends on external I/O inside              *)
(* discoverCompanionAppId (the connect, then the race of the read, the     *)
(* disconnect signal and the 15 s timer), so each action below is one      *)
(* callback run from its start or resumption to its next suspension.       *)
(*                                                                         *)
(* Time is kept relative: timers hold the time left, time stamps are kept  *)
(* as the time elapsed since them, saturating where the code only compares *)
(* them with a limit.  One Tick is TickSeconds seconds.                    *)
(***************************************************************************)
EXTENDS Integers, FiniteSets, Sequences, TLC

\* ------------------------------------------------------------- bounds
MaxAdverts == 3
MaxLocal == 1
MaxRemote == 2
MaxAnnounce == 1
MaxExtra == 1
MaxAttributes == 2

\* --------------------------------------------------- program constants
HandshakeTimeout == 15
CoolDown == 180
ExpectedLength == 25
AppleCompanyId == 76
IBeaconType == 2
IBeaconDataLength == 21

\* ------------------------------------------------------- configuration
\* The values of this.config the specifications below start from.
UpdateFrequency == 30
Timeout == 30
MaxDistance == 2
MeasuredPower == 0

\* ------------------------------------------------------------- domains
Peripherals == {"p1"}
AppIds == {"a1"}
TagIds == Peripherals \cup AppIds
InstanceName == "nodeA"
Nodes == {"nodeA", "nodeB"}
Distances == 1 .. (MaxDistance + 1)
Rssis == {MeasuredPower - d : d \in Distances}
StrongRssi == MeasuredPower - 1

Undefined == "undefined"
Null == "null"
NoTimer == 0 - 1

NonNull(v) == v \notin {Undefined, Null}
Min(S) == CHOOSE x \in S : \A y \in S : x <= y
Inc(x, cap) == IF x < cap THEN x + 1 ELSE cap
Dec(x) == IF x > 0 THEN x - 1 ELSE x

VARIABLES
    config,
    seenIds,
    companionAppTags,
    companionAppDenylist,
    tagUpdaters,
    kalman,
    denyTimers,
    tasks,
    listeners,
    sensors,
    published,
    latest,
    stats,
    attempts,
    adverts,
    remotes,
    created,
    applied,
    entityConfigs,
    debounceFunctions,
    outbox,
    announced,
    lastCall,
    attributeCalls

\* BluetoothLowEnergyService and HomeAssistantService.
bleVars == <<config, seenIds, companionAppTags, companionAppDenylist, tagUpdaters, kalman,
             denyTimers, tasks, listeners, sensors, published, latest, stats, attempts,
             adverts, remotes, created, applied>>
sinkVars == <<entityConfigs, debounceFunctions, outbox, announced, lastCall, attributeCalls>>

vars == <<bleVars, sinkVars>>

\* One Tick is the handshake timeout; durations are rounded up to ticks.
TickSeconds == HandshakeTimeout
Ticks(seconds) == (seconds + TickSeconds - 1) \div TickSeconds
Wait == Ticks(config.updateFrequency)
TimeoutTicks == Ticks(config.timeout)
CoolDownTicks == Ticks(CoolDown)
HandshakeTicks == Ticks(HandshakeTimeout)

\* The node's state as one record, so that a handler is a function from state
\* to state and a handler calling another is a composition.  applied is no
\* program state: it holds the events the step that led to the current state
\* handed to handleNewDistance, so every step starts with none.
Cur ==
    [seenIds |-> seenIds,
     companionAppTags |-> companionAppTags,
     companionAppDenylist |-> companionAppDenylist,
     tagUpdaters |-> tagUpdaters,
     kalman |-> kalman,
     denyTimers |-> denyTimers,
     tasks |-> tasks,
     listeners |-> listeners,
     sensors |-> sensors,
     published |-> published,
     latest |-> latest,
     stats |-> stats,
     attempts |-> attempts,
     adverts |-> adverts,
     remotes |-> remotes,
     applied |-> {}]

Becomes(s) ==
    /\ config' = config
    /\ seenIds' = s.seenIds
    /\ companionAppTags' = s.companionAppTags
    /\ companionAppDenylist' = s.companionAppDenylist
    /\ tagUpdaters' = s.tagUpdaters
    /\ kalman' = s.kalman
    /\ denyTimers' = s.denyTimers
    /\ tasks' = s.tasks
    /\ listeners' = s.listeners
    /\ sensors' = s.sensors
    /\ published' = s.published
    /\ latest' = s.latest
    /\ stats' = s.stats
    /\ attempts' = s.attempts
    /\ adverts' = s.adverts
    /\ remotes' = s.remotes
    /\ created' = created
    /\ applied' = s.applied
    /\ UNCHANGED sinkVars

\* ------------------------------------------------------------- values
\* Tag.distance: grows with the attenuation measuredPower - rssi.
DistanceOf(rssi, measuredPower) == measuredPower - rssi

\* KalmanFilterable.kalmanFilter: the estimate moves from the previous
\* estimate towards the measurement; the first measurement is taken as is.
KalmanFilter(prev, rssi) ==
    IF prev = {} THEN rssi
    ELSE LET p == CHOOSE x \in prev : TRUE IN (p + rssi) \div 2

\* new NewDistanceEvent(...) in handleDiscovery.
NewDistanceEvent(tag) ==
    [instanceName |-> InstanceName,
     tagId |-> tag.id,
     peripheralId |-> tag.peripheralId,
     isApp |-> tag.isApp,
     rssi |-> tag.rssi,
     distance |-> DistanceOf(tag.rssi, tag.measuredPower),
     outOfRange |-> DistanceOf(tag.rssi, tag.measuredPower) > config.maxDistance,
     battery |-> FALSE]

\* Events other nodes publish on NEW_DISTANCE_CHANNEL.
RemoteEvents ==
    { [instanceName |-> n,
       tagId |-> t,
       peripheralId |-> p,
       isApp |-> (t \in AppIds),
       rssi |-> MeasuredPower - d,
       distance |-> d,
       outOfRange |-> d > MaxDistance,
       battery |-> FALSE] :
      n \in Nodes \ {InstanceName}, t \in TagIds, p \in Peripherals, d \in Distances }

\* ------------------------------------------------- presence sensor
NoSlot == [distance |-> 0, outOfRange |-> TRUE, age |-> -1]

IsExpired(slot) == slot.age > TimeoutTicks

Qualifying(sensor) ==
    { n \in Nodes : /\ sensor.slots[n].age >= 0
                    /\ ~sensor.slots[n].outOfRange
                    /\ ~IsExpired(sensor.slots[n]) }

\* RoomPresenceDistanceSensor.updateState
UpdateState(sensor) ==
    LET q == Qualifying(sensor) IN
    IF q = {}
    THEN [sensor EXCEPT !.state = "out-of-range", !.distance = 0]
    ELSE [sensor EXCEPT !.state = "present",
                        !.distance = Min({sensor.slots[n].distance : n \in q})]

\* BluetoothLowEnergyPresenceSensor.handleNewMeasurement
HandleNewMeasurement(sensor, instanceName, distance, outOfRange) ==
    UpdateState([sensor EXCEPT !.slots[instanceName] =
        [distance |-> distance, outOfRange |-> outOfRange, age |-> 0]])

NoSensor ==
    [exists |-> FALSE, slots |-> [n \in Nodes |-> NoSlot], state |-> "unknown",
     distance |-> 0, interval |-> NoTimer, tracker |-> FALSE, battery |-> FALSE,
     made |-> 0]

CreateRoomPresenceSensorNoInterval(hasBattery) ==
    [exists |-> TRUE, slots |-> [n \in Nodes |-> NoSlot], state |-> "unknown",
     distance |-> 0, interval |-> NoTimer, tracker |-> TRUE,
     battery |-> hasBattery, made |-> 0]

\* createRoomPresenceSensor: the tracker, the battery sensor when the event
\* carries a battery level, the sensor itself and its timeout-check interval.
\* made counts how often the sensor of an id was created; handleNewDistance
\* sets it.
CreateRoomPresenceSensor(hasBattery) ==
    [exists |-> TRUE, slots |-> [n \in Nodes |-> NoSlot], state |-> "unknown",
     distance |-> 0, interval |-> TimeoutTicks, tracker |-> TRUE,
     battery |-> hasBattery, made |-> 0]

\* ------------------------------------------------- companion cache
HandleAppDiscoveryKeepsDenylist(s, tagId, appId) ==
    LET oldId == s.companionAppTags[tagId] IN
    IF ~(NonNull(oldId) /\ ~NonNull(appId))
    THEN [s EXCEPT !.companionAppTags[tagId] = appId]
    ELSE s

\* handleAppDiscovery
HandleAppDiscovery(s, tagId, appId) ==
    LET oldId == s.companionAppTags[tagId] IN
    IF ~(NonNull(oldId) /\ ~NonNull(appId))
    THEN [s EXCEPT !.companionAppTags[tagId] = appId,
                   !.companionAppDenylist = @ \ {tagId}]
    ELSE s

HandleNewDistanceInRange(s, event) ==
    LET s1 == IF event.isApp
              THEN HandleAppDiscovery(s, event.peripheralId, event.tagId)
              ELSE s
        sensor == IF s1.sensors[event.tagId].exists
                  THEN s1.sensors[event.tagId]
                  ELSE [CreateRoomPresenceSensor(event.battery) EXCEPT
                            !.made = s1.sensors[event.tagId].made + 1]
    IN [s1 EXCEPT !.applied = @ \cup {event},
                  !.stats[event.tagId].applied =
                      IF event.instanceName = InstanceName THEN @ + 1 ELSE @,
                  !.sensors[event.tagId] =
            HandleNewMeasurement(sensor, event.instanceName, event.distance, FALSE)]

HandleNewDistanceAlwaysCreates(s, event) ==
    LET s1 == IF event.isApp
              THEN HandleAppDiscovery(s, event.peripheralId, event.tagId)
              ELSE s
        sensor == [CreateRoomPresenceSensor(event.battery) EXCEPT
                      !.made = s1.sensors[event.tagId].made + 1]
    IN [s1 EXCEPT !.applied = @ \cup {event},
                  !.stats[event.tagId].applied =
                      IF event.instanceName = InstanceName THEN @ + 1 ELSE @,
                  !.sensors[event.tagId] =
            HandleNewMeasurement(sensor, event.instanceName, event.distance,
                                 event.outOfRange)]

\* handleNewDistance
HandleNewDistance(s, event) ==
    LET s1 == IF event.isApp
              THEN HandleAppDiscovery(s, event.peripheralId, event.tagId)
              ELSE s
        sensor == IF s1.sensors[event.tagId].exists
                  THEN s1.sensors[event.tagId]
                  ELSE [CreateRoomPresenceSensor(event.battery) EXCEPT
                            !.made = s1.sensors[event.tagId].made + 1]
    IN [s1 EXCEPT !.applied = @ \cup {event},
                  !.stats[event.tagId].applied =
                      IF event.instanceName = InstanceName THEN @ + 1 ELSE @,
                  !.sensors[event.tagId] =
            HandleNewMeasurement(sensor, event.instanceName, event.distance,
                                 event.outOfRange)]

\* ------------------------------------------------------- bookkeeping
\* What the dispatcher of one tag id has been handed and has dispatched.
\* Not program state: it records the history the properties speak about.
NoStats ==
    [calls |-> 0, dispatched |-> 0, firstCall |-> {}, lastCall |-> {},
     lastDispatch |-> {}, sinceFirst |-> 0, burst |-> TRUE,
     sinceDispatch |-> 0, lastGap |-> Wait, applied |-> 0]

NoteCall(st, event) ==
    [st EXCEPT !.calls = @ + 1,
               !.firstCall = IF st.calls = 0 THEN {event} ELSE @,
               !.lastCall = {event},
               !.sinceFirst = IF st.calls = 0 THEN 0 ELSE @,
               !.burst = IF st.calls = 0 THEN TRUE ELSE @ /\ st.sinceFirst < Wait]

NoteDispatch(st, event) ==
    [st EXCEPT !.dispatched = @ + 1,
               !.lastDispatch = {event},
               !.lastGap = IF st.dispatched = 0 THEN Wait ELSE st.sinceDispatch,
               !.sinceDispatch = 0]

\* The event an origin node reported last, with the time since its arrival.
Arrived(event) == {[event |-> event, age |-> 0]}

\* ------------------------------------------------------ dispatcher
DispatchPublishOnly(s, event) ==
    [s EXCEPT !.published[event.tagId] = @ + 1,
              !.stats[event.tagId] = NoteDispatch(@, event),
              !.latest[event.tagId][event.instanceName] = Arrived(event)]

\* The function handleDiscovery wraps in _.throttle: local fusion, then the
\* publish on the cluster bus.
Dispatch(s, event) ==
    LET s1 == HandleNewDistance(s, event) IN
    [s1 EXCEPT !.published[event.tagId] = @ + 1,
               !.stats[event.tagId] = NoteDispatch(@, event),
               !.latest[event.tagId][event.instanceName] = Arrived(event)]

\* _.throttle(func, wait) is _.debounce(func, wait, {leading, trailing,
\* maxWait: wait}).  sinceCall and sinceInvoke are now - lastCallTime and
\* now - lastInvokeTime, saturating at Wait; a throttle that was never called
\* has both at Wait.
NoThrottle ==
    [exists |-> FALSE, lastArgs |-> {}, sinceCall |-> Wait, sinceInvoke |-> Wait,
     timer |-> NoTimer]

NewThrottle == [NoThrottle EXCEPT !.exists = TRUE]

ShouldInvoke(u) == u.sinceCall >= Wait \/ u.sinceInvoke >= Wait

RemainingWait(u) ==
    IF Wait - u.sinceCall < Wait - u.sinceInvoke
    THEN Wait - u.sinceCall ELSE Wait - u.sinceInvoke

InvokeFunc(s, id) ==
    LET event == CHOOSE e \in s.tagUpdaters[id].lastArgs : TRUE IN
    Dispatch([s EXCEPT !.tagUpdaters[id].lastArgs = {},
                       !.tagUpdaters[id].sinceInvoke = 0], event)

\* this.tagUpdaters[tag.id](event)
Throttled(s, id, event) ==
    LET u == s.tagUpdaters[id]
        s1 == [s EXCEPT !.tagUpdaters[id].lastArgs = {event},
                        !.tagUpdaters[id].sinceCall = 0,
                        !.stats[id] = NoteCall(@, event)]
    IN IF ShouldInvoke(u)
       THEN InvokeFunc([s1 EXCEPT !.tagUpdaters[id].sinceInvoke = 0,
                                  !.tagUpdaters[id].timer = Wait], id)
       ELSE IF u.timer = NoTimer
            THEN [s1 EXCEPT !.tagUpdaters[id].timer = Wait]
            ELSE s1

TimerExpiredNoTrailing(s, id) ==
    [s EXCEPT !.tagUpdaters[id].timer = NoTimer, !.tagUpdaters[id].lastArgs = {}]

\* The throttle's timer callback.
TimerExpired(s, id) ==
    LET u == s.tagUpdaters[id] IN
    IF ShouldInvoke(u)
    THEN LET s1 == [s EXCEPT !.tagUpdaters[id].timer = NoTimer] IN
         IF u.lastArgs # {} THEN InvokeFunc(s1, id) ELSE s1
    ELSE [s EXCEPT !.tagUpdaters[id].timer = RemainingWait(u)]

\* ------------------------------------------------------ allow / deny
\* String.toLowerCase on the ids and list entries of the model.
ToLowerCase(x) == IF x = "A1" THEN "a1" ELSE IF x = "P1" THEN "p1" ELSE x

\* id.match(regex) for the patterns of the model: "1" occurs in every id, any
\* other pattern is a literal that occurs in the id equal to it only.
Match(id, regex) == regex = "1" \/ regex = id

\* [...(config.allowlist || []), ...(config.whitelist || [])], and the same
\* for the denylist and its legacy name.
Allowlist == config.allowlist \cup config.whitelist
Denylist == config.denylist \cup config.blacklist

IsAllowlistEnabled == config.allowlist # {} \/ config.whitelist # {}
IsDenylistEnabled == config.denylist # {} \/ config.blacklist # {}

IsOnAllowlist(id) ==
    IF Allowlist = {} THEN FALSE
    ELSE IF config.allowlistRegex
         THEN \E regex \in Allowlist : Match(id, regex)
         ELSE ToLowerCase(id) \in {ToLowerCase(x) : x \in Allowlist}

IsOnDenylistNever(id) == FALSE

IsOnDenylist(id) ==
    IF Denylist = {} THEN FALSE
    ELSE IF config.denylistRegex
         THEN \E regex \in Denylist : Match(id, regex)
         ELSE ToLowerCase(id) \in {ToLowerCase(x) : x \in Denylist}

\* applyOverrides: config.tagOverrides may replace the measured power.
ApplyOverrides(tag) ==
    IF tag.id \in DOMAIN config.tagOverrides
    THEN [tag EXCEPT !.measuredPower = config.tagOverrides[tag.id]]
    ELSE tag

\* ------------------------------------------------------ classification
\* Buffer.readUInt8(offset) and Buffer.readUInt16LE(offset); offsets count
\* from 0.
ReadUInt8(data, offset) == data[offset + 1]
ReadUInt16LE(data, offset) == data[offset + 1] + 256 * data[offset + 2]

IsIBeaconAnyLength(manufacturerData) ==
    /\ manufacturerData # {}
    /\ LET data == CHOOSE d \in manufacturerData : TRUE IN
       /\ Len(data) >= 4
       /\ AppleCompanyId = ReadUInt16LE(data, 0)
       /\ IBeaconType = ReadUInt8(data, 2)
       /\ IBeaconDataLength = ReadUInt8(data, 3)

\* isIBeacon; manufacturerData is {} when the advertisement has none.
IsIBeacon(manufacturerData) ==
    /\ manufacturerData # {}
    /\ LET data == CHOOSE d \in manufacturerData : TRUE IN
       /\ ExpectedLength <= Len(data)
       /\ AppleCompanyId = ReadUInt16LE(data, 0)
       /\ IBeaconType = ReadUInt8(data, 2)
       /\ IBeaconDataLength = ReadUInt8(data, 3)

\* createTag: which constructor the advertisement's tag is made with.
TagClass(manufacturerData) ==
    IF config.processIBeacon /\ IsIBeacon(manufacturerData) THEN "IBeacon" ELSE "Tag"

\* ------------------------------------------------------ handleDiscovery
\* createTag for an advertisement of a peripheral that is no iBeacon.
CreateTag(pid, rssi) ==
    [id |-> pid, peripheralId |-> pid, rssi |-> rssi,
     measuredPower |-> MeasuredPower, isApp |-> FALSE]

\* The advertisement of the tag is handed to the signal filter.  Not program
\* state: handed counts the advertisements of the peripheral handed on so
\* far.
NoteHanded(s, tag) ==
    [s EXCEPT !.attempts[tag.peripheralId].handed = @ + 1]

AfterOverrideFiltersFirst(s, tag0) ==
    LET filtered == KalmanFilter(s.kalman[tag0.id], tag0.rssi)
        s1 == [s EXCEPT !.seenIds = @ \cup {tag0.id},
                        !.kalman[tag0.id] = {filtered}]
    IN IF (IsOnAllowlist(tag0.id) \/ (~IsAllowlistEnabled /\ IsDenylistEnabled))
          /\ ~IsOnDenylist(tag0.id)
       THEN LET tag == [ApplyOverrides(tag0) EXCEPT !.rssi = filtered]
                s2 == [NoteHanded(s1, tag) EXCEPT
                                 !.tagUpdaters[tag.id] =
                                     IF @.exists THEN @ ELSE NewThrottle]
            IN Throttled(s2, tag.id, NewDistanceEvent(tag))
       ELSE s1

\* handleDiscovery from the return of applyCompanionAppOverride on.
AfterOverride(s, tag0) ==
    LET s1 == [s EXCEPT !.seenIds = @ \cup {tag0.id}] IN
    IF (IsOnAllowlist(tag0.id) \/ (~IsAllowlistEnabled /\ IsDenylistEnabled))
       /\ ~IsOnDenylist(tag0.id)
    THEN LET tag1 == ApplyOverrides(tag0)
             filtered == KalmanFilter(s1.kalman[tag1.id], tag1.rssi)
             tag == [tag1 EXCEPT !.rssi = filtered]
             event == NewDistanceEvent(tag)
             s2 == [NoteHanded(s1, tag) EXCEPT
                              !.kalman[tag.id] = {filtered},
                              !.tagUpdaters[tag.id] =
                                  IF @.exists THEN @ ELSE NewThrottle]
         IN Throttled(s2, tag.id, event)
    ELSE s1

\* The end of applyCompanionAppOverride: the cached app id replaces the id.
ApplyCachedId(s, tag) ==
    LET appId == s.companionAppTags[tag.id] IN
    IF NonNull(appId) THEN [tag EXCEPT !.id = appId, !.isApp = TRUE] ELSE tag

ResumeUnresolved(s, tag) == AfterOverride(s, tag)

\* handleDiscovery from the last lines of applyCompanionAppOverride on.
Resume(s, tag) == AfterOverride(s, ApplyCachedId(s, tag))

StartsDiscoveryWhilePending(s, tag, companion) ==
    /\ companion
    /\ ~NonNull(s.companionAppTags[tag.id])
    /\ tag.id \notin s.companionAppDenylist

StartsDiscoveryWhileDenied(s, tag, companion) ==
    /\ companion
    /\ s.companionAppTags[tag.id] = Undefined

\* applyCompanionAppOverride up to its await: whether a handshake starts.
StartsDiscovery(s, tag, companion) ==
    /\ companion
    /\ s.companionAppTags[tag.id] = Undefined
    /\ tag.id \notin s.companionAppDenylist

\* discoverCompanionAppId up to its first await: the disconnect listener is
\* registered and the connect is under way.
BeginDiscovery(s, tag) ==
    [s EXCEPT !.companionAppTags[tag.id] = Null,
              !.listeners[tag.peripheralId] = @ + 1,
              !.attempts[tag.id].started = @ + 1,
              !.tasks = @ \cup {[n |-> s.adverts, tag |-> tag, phase |-> "connect",
                                 timer |-> NoTimer, listening |-> TRUE]}]

HandleDiscovery(s0, pid, companion, rssi) ==
    LET tag == CreateTag(pid, rssi)
        s == [s0 EXCEPT !.adverts = @ + 1,
                        !.attempts[pid].skipped =
                            IF companion /\ ~StartsDiscovery(s0, tag, companion)
                            THEN @ + 1 ELSE @]
    IN IF StartsDiscovery(s, tag, companion)
       THEN BeginDiscovery(s, tag)
       ELSE Resume(s, tag)

\* --------------------------------------------- discoverCompanionAppId
ReadOutcomes == AppIds \cup {"null", "error", "timed out", "disconnect"}
ConnectErrors == {"timed out", "failed"}

\* How the attempt ended; not program state.
NoteEnd(s, t, how) ==
    [s EXCEPT !.attempts[t.tag.id].ended = @ + 1,
              !.attempts[t.tag.id].last = how]

\* The finally block of discoverCompanionAppId: removeListener, disconnect.
Finally(s, t) ==
    [s EXCEPT !.listeners[t.tag.peripheralId] = IF t.listening THEN Dec(@) ELSE @,
              !.attempts[t.tag.id].disconnected = @ + 1]

CatchKeepsEntry(s, t, message) ==
    IF message = "timed out"
    THEN [s EXCEPT !.companionAppDenylist = @ \cup {t.tag.id},
                   !.denyTimers = @ \cup {[id |-> t.tag.id, timer |-> CoolDownTicks]}]
    ELSE [s EXCEPT !.companionAppTags[t.tag.id] = Undefined]

\* The catch block of applyCompanionAppOverride.
Catch(s, t, message) ==
    LET s1 == IF message = "timed out"
              THEN [s EXCEPT !.companionAppDenylist = @ \cup {t.tag.id},
                             !.denyTimers = @ \cup
                                 {[id |-> t.tag.id, timer |-> CoolDownTicks]}]
              ELSE s
    IN [s1 EXCEPT !.companionAppTags[t.tag.id] = Undefined]

\* connectLowEnergyDevice rejects: the await in discoverCompanionAppId is
\* outside its try, so the error reaches the catch of
\* applyCompanionAppOverride and handleDiscovery goes on from there.
ConnectFailed(s, t, message) ==
    LET s1 == Catch([s EXCEPT !.tasks = @ \ {t}], t, message)
        s2 == NoteEnd(s1, t, IF message = "timed out" THEN "connect timed out"
                                                      ELSE "connect failed")
    IN Resume(s2, t.tag)

\* The race of discoverCompanionAppId settles: a read error and the 15 s
\* timeout are caught inside and give null like a missing service or a
\* disconnect.  The function returns appId, and applyCompanionAppOverride
\* and handleDiscovery run to their end.
RaceSettled(s, t, outcome) ==
    LET appId == IF outcome \in AppIds THEN outcome ELSE Null
        s1 == Finally([s EXCEPT !.tasks = @ \ {t}], t)
        s2 == HandleAppDiscovery(s1, t.tag.id, appId)
        s3 == NoteEnd(s2, t, outcome)
    IN Resume(s3, t.tag)

\* The peripheral emits 'disconnect': every listener registered with once()
\* runs and is removed.
Disconnected(s, p) ==
    [s EXCEPT !.listeners[p] = 0,
              !.tasks = { IF x.tag.peripheralId = p
                          THEN [x EXCEPT !.listening = FALSE] ELSE x : x \in @ }]

\* ------------------------------------------------ HomeAssistantService
\* The downstream sink between its bootstrap and its shutdown: the MQTT
\* client is connected, and outbox holds the messages the step that led to
\* the current state handed to mqttClient.publish, in order.  announced,
\* lastCall and attributeCalls are no program state: the combined ids
\* handleNewEntity was called for, the call that led to the current state, and
\* per combined id the attributes of the most recent accepted
\* handleNewAttributes call with whether a publish has followed it.
PROPERTY_BLACKLIST == {"component", "configTopic"}

EntityIds == {"e1"}
AttributeValues == 1 .. MaxAttributes

\* getCombinedId: the prefix and the entity id, joined by "_" in the code.
GetCombinedId(entityId, distributed) ==
    <<IF distributed THEN "distributed" ELSE InstanceName, entityId>>

CombinedIds == {GetCombinedId(e, d) : e \in EntityIds, d \in BOOLEAN}

\* The entities the node creates: sensors and entities of another class.
Entities == [id : EntityIds, distributed : BOOLEAN, isSensor : BOOLEAN]
EntityOptions == {{}, {[icon |-> "mdi:bluetooth"]}}
StateValues == {[type |-> "number", text |-> "1"], [type |-> "string", text |-> "kitchen"]}
Attributes == {[distance |-> v, lastUpdatedAt |-> v] : v \in AttributeValues}

\* String(state): the text of the value.
StringOf(state) == state.text

\* new SensorConfig(id, name): the topics are derived from the id.
SensorConfig(combinedId) ==
    [component |-> "sensor",
     uniqueId |-> combinedId,
     configTopic |-> <<"config", combinedId>>,
     stateTopic |-> <<"state", combinedId>>,
     jsonAttributesTopic |-> <<"attributes", combinedId>>,
     availabilityTopic |-> <<"status", combinedId>>,
     payloadAvailable |-> "online"]

\* Object.assign(target, source): the source's properties win.
Assign(target, source) == source @@ target

\* _.snakeCase on the property names that occur.
SnakeCase(k) ==
    CASE k = "uniqueId" -> "unique_id"
      [] k = "stateTopic" -> "state_topic"
      [] k = "jsonAttributesTopic" -> "json_attributes_topic"
      [] k = "availabilityTopic" -> "availability_topic"
      [] k = "payloadAvailable" -> "payload_available"
      [] k = "lastUpdatedAt" -> "last_updated_at"
      [] OTHER -> k

\* formatMessage: the blacklisted properties are left out and the names of
\* the others are put in snake case; the values that occur hold no objects.
FormatMessage(message) ==
    LET kept == DOMAIN message \ PROPERTY_BLACKLIST
    IN [k2 \in {SnakeCase(k) : k \in kept} |->
            message[CHOOSE k \in kept : SnakeCase(k) = k2]]

NoDebounce == [exists |-> FALSE, topic |-> <<>>, attributes |-> {}, pending |-> FALSE]
NoAttributeCall == [last |-> {}, awaiting |-> FALSE]
NoCall == [handler |-> "none", id |-> <<>>, registered |-> FALSE]

InitSink ==
    /\ entityConfigs = [c \in CombinedIds |-> {}]
    /\ debounceFunctions = [e \in EntityIds |-> NoDebounce]
    /\ outbox = <<>>
    /\ announced = {}
    /\ lastCall = NoCall
    /\ attributeCalls = [c \in CombinedIds |-> NoAttributeCall]

\* The sink's state as one record; every step starts with an empty outbox.
SinkCur ==
    [entityConfigs |-> entityConfigs,
     debounceFunctions |-> debounceFunctions,
     outbox |-> <<>>,
     announced |-> announced,
     lastCall |-> lastCall,
     attributeCalls |-> attributeCalls]

SinkBecomes(k) ==
    /\ entityConfigs' = k.entityConfigs
    /\ debounceFunctions' = k.debounceFunctions
    /\ outbox' = k.outbox
    /\ announced' = k.announced
    /\ lastCall' = k.lastCall
    /\ attributeCalls' = k.attributeCalls
    /\ UNCHANGED bleVars

\* mqttClient.publish.
Publish(k, topic, payload) ==
    [k EXCEPT !.outbox = Append(@, [topic |-> topic, payload |-> payload])]

NoteSinkCall(k, handler, combinedId) ==
    [k EXCEPT !.lastCall = [handler |-> handler, id |-> combinedId,
                            registered |-> k.entityConfigs[combinedId] # {}]]

HandleNewEntity(k, entity, entityOptions) ==
    LET combinedId == GetCombinedId(entity.id, entity.distributed)
        k1 == [NoteSinkCall(k, "handleNewEntity", combinedId) EXCEPT
                  !.announced = @ \cup {combinedId}]
        config0 == SensorConfig(combinedId)
        config1 == IF entityOptions # {}
                   THEN Assign(config0, CHOOSE o \in entityOptions : TRUE)
                   ELSE config0
        entityConfig == Assign(config1,
                      [device |-> IF entity.distributed
                                  THEN "room-assistant-distributed"
                                  ELSE InstanceName])
        k2 == [k1 EXCEPT !.entityConfigs[combinedId] = {entityConfig}]
        k3 == Publish(k2, entityConfig.configTopic, FormatMessage(entityConfig))
    IN IF ~entity.isSensor THEN k1
       ELSE Publish(k3, entityConfig.availabilityTopic, entityConfig.payloadAvailable)

HandleNewStateUnchecked(k, id, state, distributed) ==
    LET combinedId == GetCombinedId(id, distributed)
        k1 == NoteSinkCall(k, "handleNewState", combinedId)
    IN Publish(k1, SensorConfig(combinedId).stateTopic, StringOf(state))

HandleNewState(k, id, state, distributed) ==
    LET combinedId == GetCombinedId(id, distributed)
        k1 == NoteSinkCall(k, "handleNewState", combinedId)
    IN IF k.entityConfigs[combinedId] = {} THEN k1
       ELSE LET entityConfig == CHOOSE c \in k.entityConfigs[combinedId] : TRUE
            IN Publish(k1, entityConfig.stateTopic, StringOf(state))

\* The debounced function is called: _.debounce without a wait (re)starts a
\* timer of 0 ms.
CallDebounced(k, entityId) ==
    [k EXCEPT !.debounceFunctions[entityId].pending = TRUE]

HandleNewAttributes(k, entityId, attributes, distributed) ==
    LET combinedId == GetCombinedId(entityId, distributed)
        k1 == NoteSinkCall(k, "handleNewAttributes", combinedId)
        entityConfig == CHOOSE c \in k.entityConfigs[combinedId] : TRUE
        k2 == [k1 EXCEPT !.attributeCalls[combinedId] =
                             [last |-> {attributes}, awaiting |-> TRUE]]
    IN IF k.entityConfigs[combinedId] = {} THEN k1
       ELSE IF k.debounceFunctions[entityId].exists
            THEN CallDebounced(k2, entityId)
            ELSE [k2 EXCEPT !.debounceFunctions[entityId] =
                     [exists |-> TRUE, topic |-> entityConfig.jsonAttributesTopic,
                      attributes |-> {attributes}, pending |-> FALSE]]

\* The timer of a debounced function expires: the function passed to
\* _.debounce runs with the config and the attributes it was created with.
DebouncedRuns(k, entityId) ==
    LET f == k.debounceFunctions[entityId]
        k1 == [k EXCEPT !.debounceFunctions[entityId].pending = FALSE,
                        !.lastCall = [handler |-> "debounced", id |-> f.topic[2],
                                      registered |-> TRUE],
                        !.attributeCalls[f.topic[2]].awaiting = FALSE]
    IN Publish(k1, f.topic,
               FormatMessage(CHOOSE a \in f.attributes : TRUE))

\* ------------------------------------------------------------ actions
OpenConfig ==
    [allowlist |-> {}, whitelist |-> {}, allowlistRegex |-> FALSE,
     denylist |-> {"blocked"}, blacklist |-> {}, denylistRegex |-> FALSE,
     tagOverrides |-> <<>>, processIBeacon |-> TRUE,
     updateFrequency |-> UpdateFrequency, timeout |-> Timeout,
     maxDistance |-> MaxDistance]

\* Only companion identities are tracked: the raw peripheral ids are denied.
AppsOnlyConfig == [OpenConfig EXCEPT !.denylist = Peripherals]

InitWith(cfg) ==
    /\ config = cfg
    /\ seenIds = {}
    /\ companionAppTags = [p \in Peripherals |-> Undefined]
    /\ companionAppDenylist = {}
    /\ tagUpdaters = [t \in TagIds |-> NoThrottle]
    /\ kalman = [t \in TagIds |-> {}]
    /\ denyTimers = {}
    /\ tasks = {}
    /\ listeners = [p \in Peripherals |-> 0]
    /\ sensors = [t \in TagIds |-> NoSensor]
    /\ published = [t \in TagIds |-> 0]
    /\ latest = [t \in TagIds |-> [n \in Nodes |-> {}]]
    /\ stats = [t \in TagIds |-> NoStats]
    /\ attempts = [p \in Peripherals |->
           [started |-> 0, ended |-> 0, disconnected |-> 0, expired |-> 0,
            skipped |-> 0, last |-> "none", handed |-> 0]]
    /\ adverts = 0
    /\ remotes = 0
    /\ created = {}
    /\ applied = {}
    /\ InitSink

Init == InitWith(OpenConfig)

\* The radio reports an advertisement: handleDiscovery runs up to the await
\* of the connect, or to its end when no handshake starts.
Advertises(cap, companions, rssis) ==
    \E pid \in Peripherals, companion \in companions, rssi \in rssis :
        /\ adverts < cap
        /\ Becomes(HandleDiscovery(Cur, pid, companion, rssi))

\* The cluster bus delivers an event of another node to handleNewDistance.
Delivers(cap, events) ==
    \E event \in events :
        /\ remotes < cap
        /\ Becomes([HandleNewDistance(Cur, event) EXCEPT
               !.remotes = @ + 1,
               !.latest[event.tagId][event.instanceName] = Arrived(event)])

Discover == Advertises(MaxAdverts, BOOLEAN, Rssis)

ClusterDelivers == Delivers(MaxRemote, RemoteEvents)

ConnectResolves ==
    \E t \in tasks :
        /\ t.phase = "connect"
        /\ Becomes([Cur EXCEPT !.tasks = (@ \ {t}) \cup
               {[t EXCEPT !.phase = "race", !.timer = HandshakeTicks]}])

ConnectRejects ==
    \E t \in tasks, message \in ConnectErrors :
        /\ t.phase = "connect"
        /\ Becomes(ConnectFailed(Cur, t, message))

PeerDisconnects ==
    \E t \in tasks :
        /\ t.listening
        /\ LET s1 == Disconnected(Cur, t.tag.peripheralId)
               t1 == [t EXCEPT !.listening = FALSE]
           IN Becomes(IF t.phase = "race" THEN RaceSettled(s1, t1, "disconnect")
                      ELSE s1)

RaceSettles ==
    \E t \in tasks, outcome \in ReadOutcomes :
        /\ t.phase = "race"
        /\ (outcome = "disconnect") = ~t.listening
        /\ outcome = "timed out" => t.timer = 0
        /\ Becomes(RaceSettled(Cur, t, outcome))

\* The setTimeout callback of the catch block.
DenyTimerFires ==
    \E tm \in denyTimers :
        /\ tm.timer = 0
        /\ Becomes([Cur EXCEPT
               !.companionAppDenylist = @ \ {tm.id},
               !.denyTimers = @ \ {tm},
               !.attempts[tm.id].expired =
                   IF tm.id \in companionAppDenylist THEN @ + 1 ELSE @])

ThrottleTimerFires ==
    \E id \in TagIds :
        /\ tagUpdaters[id].timer = 0
        /\ Becomes(TimerExpired(Cur, id))

\* The interval createRoomPresenceSensor registers: sensor.updateState.
TimeoutCheck ==
    \E id \in TagIds :
        /\ sensors[id].interval = 0
        /\ Becomes([Cur EXCEPT !.sensors[id] =
               [UpdateState(@) EXCEPT !.interval = TimeoutTicks]])

NoTimerDue ==
    /\ \A id \in TagIds : tagUpdaters[id].timer # 0 /\ sensors[id].interval # 0
    /\ \A tm \in denyTimers : tm.timer # 0
    /\ \A t \in tasks : t.timer # 0

\* Time passes by one tick; a timer that is due runs first.
Tick ==
    /\ NoTimerDue
    /\ Becomes([Cur EXCEPT
           !.tagUpdaters = [id \in TagIds |->
               [@[id] EXCEPT !.sinceCall = Inc(@, Wait),
                             !.sinceInvoke = Inc(@, Wait),
                             !.timer = Dec(@)]],
           !.denyTimers = {[tm EXCEPT !.timer = Dec(@)] : tm \in @},
           !.tasks = {[t EXCEPT !.timer = Dec(@)] : t \in @},
           !.sensors = [id \in TagIds |->
               [@[id] EXCEPT !.interval = Dec(@),
                             !.slots = [n \in Nodes |->
                                 IF @[n].age < 0 THEN @[n]
                                 ELSE [@[n] EXCEPT !.age = Inc(@, TimeoutTicks + 1)]]]],
           !.latest = [id \in TagIds |-> [n \in Nodes |->
               {[x EXCEPT !.age = Inc(@, TimeoutTicks + 1)] : x \in @[id][n]}]],
           !.stats = [id \in TagIds |->
               [@[id] EXCEPT !.sinceFirst = Inc(@, Wait),
                             !.sinceDispatch = Inc(@, Wait)]]])

\* ------------------------------------------------------ specifications
\* The whole node.
Next ==
    \/ Discover
    \/ ConnectResolves
    \/ ConnectRejects
    \/ PeerDisconnects
    \/ RaceSettles
    \/ DenyTimerFires
    \/ ThrottleTimerFires
    \/ TimeoutCheck
    \/ ClusterDelivers
    \/ Tick

Spec == Init /\ [][Next]_vars

\* The dispatcher: advertisements of peripherals that are not connectable, so
\* that every callback runs to its end at once.
DiscoverPlain == Advertises(MaxAdverts, {FALSE}, Rssis)

NextDispatch ==
    \/ DiscoverPlain
    \/ ThrottleTimerFires
    \/ TimeoutCheck
    \/ Tick

SpecDispatch == Init /\ [][NextDispatch]_vars

\* The aggregator: local observations and the events of another node.
DiscoverLocal == Advertises(MaxLocal, {FALSE}, Rssis)

NextFusion ==
    \/ DiscoverLocal
    \/ ThrottleTimerFires
    \/ TimeoutCheck
    \/ ClusterDelivers
    \/ Tick

SpecFusion == Init /\ [][NextFusion]_vars

\* The aggregator of a cluster that publishes raw identities only.
PlainEvents == {e \in RemoteEvents : ~e.isApp}

ClusterReports == Delivers(MaxAnnounce, PlainEvents)

NextExpiry ==
    \/ DiscoverLocal
    \/ ThrottleTimerFires
    \/ TimeoutCheck
    \/ ClusterReports
    \/ Tick

SpecExpiry == Init /\ [][NextExpiry]_vars

\* Timers that are due fire, and time passes.
FairSpecExpiry ==
    /\ SpecExpiry
    /\ WF_vars(Tick)
    /\ WF_vars(TimeoutCheck)
    /\ WF_vars(ThrottleTimerFires)

\* The resolver: a node that tracks companion identities only, one signal
\* strength, and the events other nodes publish for resolved identities.
DiscoverSteady == Advertises(MaxAdverts, BOOLEAN, {StrongRssi})

AppEvents == {e \in RemoteEvents : e.isApp /\ e.distance = 1}

ClusterAnnounces == Delivers(MaxAnnounce, AppEvents)

NextResolver ==
    \/ DiscoverSteady
    \/ ConnectResolves
    \/ ConnectRejects
    \/ PeerDisconnects
    \/ RaceSettles
    \/ DenyTimerFires
    \/ ThrottleTimerFires
    \/ TimeoutCheck
    \/ ClusterAnnounces
    \/ Tick

SpecResolver == InitWith(AppsOnlyConfig) /\ [][NextResolver]_vars

\* The gate: any configuration of the lists, advertisements of a peripheral
\* under its raw identity and, once another node has announced its companion
\* identity, under that; no time passes.
ListEntries == {"p1", "A1", "1"}
LegacyEntries == {"p1"}

GateConfigs ==
    { [OpenConfig EXCEPT !.allowlist = al, !.whitelist = wl, !.allowlistRegex = ar,
                         !.denylist = dl, !.blacklist = bl, !.denylistRegex = dr] :
      al \in SUBSET ListEntries, wl \in SUBSET LegacyEntries, ar \in BOOLEAN,
      dl \in SUBSET ListEntries, bl \in SUBSET LegacyEntries, dr \in BOOLEAN }

InitGate == \E cfg \in GateConfigs : InitWith(cfg)

DiscoverKnown == Advertises(MaxAdverts, {FALSE}, {StrongRssi})

NextGate ==
    \/ DiscoverKnown
    \/ ClusterAnnounces

SpecGate == InitGate /\ [][NextGate]_vars

\* The classifier: createTag applied to manufacturer data of any content
\* around the expected length, with decoding of iBeacons enabled or not.
Bytes == {0, IBeaconType, IBeaconDataLength, AppleCompanyId}
Padded(head, length) ==
    [i \in 1 .. length |-> IF i <= Len(head) THEN head[i] ELSE 0]

ManufacturerBuffers ==
    { Padded(head, length) :
        head \in [1 .. 4 -> Bytes],
        length \in (ExpectedLength - 1) .. (ExpectedLength + MaxExtra) }
    \cup { Padded(<<AppleCompanyId, 0, IBeaconType>>, length) : length \in 0 .. 3 }

ManufacturerData == {{}} \cup {{data} : data \in ManufacturerBuffers}

InitClassify ==
    \E enabled \in BOOLEAN : InitWith([OpenConfig EXCEPT !.processIBeacon = enabled])

Classifies ==
    \E data \in ManufacturerData :
        /\ created' = {[manufacturerData |-> data, class |-> TagClass(data)]}
        /\ UNCHANGED <<config, seenIds, companionAppTags, companionAppDenylist,
                       tagUpdaters, kalman, denyTimers, tasks, listeners, sensors,
                       published, latest, stats, attempts, adverts, remotes, applied>>
        /\ UNCHANGED sinkVars

NextClassify == Classifies

SpecClassify == InitClassify /\ [][NextClassify]_vars

\* The callbacks of one peripheral within one instant: advertisements with
\* and without companion app and the steps of the handshake, every
\* identity passing the gate.
NextOrder ==
    \/ DiscoverSteady
    \/ ConnectResolves
    \/ ConnectRejects
    \/ PeerDisconnects
    \/ RaceSettles

SpecOrder == Init /\ [][NextOrder]_vars

\* A node on which every identity passes the gate, with handshakes that
\* get their connection, the companion identities other nodes announce, and
\* time.
NextSupersede ==
    \/ DiscoverSteady
    \/ ConnectResolves
    \/ RaceSettles
    \/ ClusterAnnounces
    \/ ThrottleTimerFires
    \/ TimeoutCheck
    \/ Tick

SpecSupersede == Init /\ [][NextSupersede]_vars

\* The entities: local observations and the events of another node for the
\* same devices, with and without battery level.
EntityEvents ==
    { [e EXCEPT !.battery = b] : e \in {x \in RemoteEvents : x.distance = 1},
                                 b \in BOOLEAN }

ClusterReportsBattery == Delivers(MaxAnnounce, EntityEvents)

NextEntities ==
    \/ DiscoverKnown
    \/ ClusterReportsBattery
    \/ ThrottleTimerFires
    \/ TimeoutCheck
    \/ Tick

SpecEntities == Init /\ [][NextEntities]_vars

\* The callbacks of one peripheral within one instant, together with the
\* events another node publishes for its raw and its companion identity.
NearEvents == {e \in RemoteEvents : e.distance = 1}

ClusterTalks == Delivers(MaxAnnounce, NearEvents)

NextOwnership ==
    \/ NextOrder
    \/ ClusterTalks

SpecOwnership == Init /\ [][NextOwnership]_vars

\* The downstream sink: the entity events of the node.
NewEntity ==
    \E entity \in Entities, entityOptions \in EntityOptions :
        SinkBecomes(HandleNewEntity(SinkCur, entity, entityOptions))

StateUpdate ==
    \E id \in EntityIds, state \in StateValues, distributed \in BOOLEAN :
        SinkBecomes(HandleNewState(SinkCur, id, state, distributed))

AttributesUpdate ==
    \E entityId \in EntityIds, attributes \in Attributes, distributed \in BOOLEAN :
        SinkBecomes(HandleNewAttributes(SinkCur, entityId, attributes, distributed))

DebounceTimerFires ==
    \E entityId \in EntityIds :
        /\ debounceFunctions[entityId].pending
        /\ SinkBecomes(DebouncedRuns(SinkCur, entityId))

NextSink ==
    \/ NewEntity
    \/ StateUpdate
    \/ AttributesUpdate
    \/ DebounceTimerFires

SpecSink == Init /\ [][NextSink]_vars

\* A timer that is due expires.
FairSpecSink == SpecSink /\ WF_vars(DebounceTimerFires)

\* ----------------------------------------------------------- properties
TasksOf(p) == {t \in tasks : t.tag.id = p}

\* C1: at most one companion handshake is outstanding for a transport
\* identity at any time; an advertisement that finds the identity pending
\* starts no second one.
C1_AtMostOneHandshake ==
    \A p \in Peripherals : Cardinality(TasksOf(p)) <= 1

C1_Witness ==
    \E p \in Peripherals :
        /\ TasksOf(p) # {}
        /\ companionAppTags[p] = Null
        /\ attempts[p].started = 1
        /\ attempts[p].ended = 0
        /\ attempts[p].skipped >= 1

Settled(id) ==
    /\ tagUpdaters[id].exists
    /\ tagUpdaters[id].timer = NoTimer
    /\ tagUpdaters[id].lastArgs = {}

C3_MinimumInterval ==
    \A id \in TagIds :
        stats[id].dispatched >= 2 => stats[id].lastGap >= Wait

Reported(id) == {n \in Nodes : latest[id][n] # {}}
LatestOf(id, n) == CHOOSE x \in latest[id][n] : TRUE
InTime(id) ==
    {n \in Reported(id) : /\ ~LatestOf(id, n).event.outOfRange
                          /\ LatestOf(id, n).age <= TimeoutTicks}

\* C4: once an event has been applied, the canonical distance of its device
\* is the smallest distance among the origins whose last event is neither
\* expired nor out of range, and the state is present; with no such origin
\* the state is out-of-range.
C4_Fusion ==
    \A id \in TagIds :
        (\E n \in Reported(id) : LatestOf(id, n).age = 0)
            => /\ sensors[id].exists
               /\ IF InTime(id) = {}
                  THEN sensors[id].state = "out-of-range"
                  ELSE /\ sensors[id].state = "present"
                       /\ sensors[id].distance =
                              Min({LatestOf(id, n).event.distance : n \in InTime(id)})

C4_Witness ==
    \E id \in TagIds :
        /\ Reported(id) = Nodes
        /\ InTime(id) = Nodes
        /\ LatestOf(id, "nodeB").age = 0
        /\ LatestOf(id, InstanceName).age > 0
        /\ LatestOf(id, InstanceName).event.distance
               < LatestOf(id, "nodeB").event.distance
        /\ sensors[id].state = "present"
        /\ sensors[id].distance = LatestOf(id, InstanceName).event.distance

AllStale(id) ==
    /\ sensors[id].exists
    /\ \A n \in Nodes : sensors[id].slots[n].age >= 0 => IsExpired(sensors[id].slots[n])

\* C5: a device whose every origin slot is older than the timeout is
\* eventually forced to out-of-range by its periodic check, with no further
\* event needed.
C5_Expiry ==
    \A id \in TagIds : AllStale(id) ~> (sensors[id].state = "out-of-range")

C5_Witness ==
    \E id \in TagIds :
        /\ AllStale(id)
        /\ Cardinality({n \in Nodes : sensors[id].slots[n].age >= 0}) = 1
        /\ \A n \in Nodes : ~sensors[id].slots[n].outOfRange \/ sensors[id].slots[n].age < 0
        /\ sensors[id].state = "out-of-range"

Ends(p, outcomes) ==
    /\ attempts'[p].ended > attempts[p].ended
    /\ attempts'[p].last \in outcomes

\* C6 as stated: when the handshake exceeds its 15 second timeout the
\* identity is put on the denylist and its pending cache entry is removed.
C6_TimeoutDenylists ==
    [][\A p \in Peripherals :
          Ends(p, {"timed out"})
              => /\ p \in companionAppDenylist'
                 /\ companionAppTags'[p] = Undefined]_vars

\* C7 as stated: when the handshake fails for another reason than the
\* timeout, the pending cache entry is removed and nothing is denylisted, so
\* that the next advertisement starts a new attempt.
C7_FailureClearsPending ==
    [][\A p \in Peripherals :
          Ends(p, {"connect failed", "error", "disconnect"})
              => /\ companionAppTags'[p] = Undefined
                 /\ p \notin companionAppDenylist']_vars

\* C8: no attempt is outstanding or started for an identity while it is on
\* the denylist or while its cool-down timer runs; a denylisted identity
\* always has a cool-down timer that removes it; and afterwards never two
\* attempts run at once.
C8_CoolDown ==
    \A p \in Peripherals :
        /\ p \in companionAppDenylist =>
               \E tm \in denyTimers : tm.id = p /\ tm.timer <= CoolDownTicks
        /\ (p \in companionAppDenylist \/ \E tm \in denyTimers : tm.id = p)
               => TasksOf(p) = {}
        /\ Cardinality(TasksOf(p)) <= 1

C8_Witness ==
    \E p \in Peripherals :
        /\ attempts[p].expired >= 1
        /\ attempts[p].started >= 2
        /\ TasksOf(p) # {}

\* C9 as stated: a mapping to a companion identity is never made null and
\* never removed.
C9_NoDowngrade ==
    [][\A p \in Peripherals :
          NonNull(companionAppTags[p]) => NonNull(companionAppTags'[p])]_vars

\* C10 as stated: every attempt that has ended has disconnected the
\* peripheral and removed its disconnect listener.
C10_AlwaysDisconnects ==
    \A p \in Peripherals :
        /\ attempts[p].disconnected = attempts[p].ended
        /\ TasksOf(p) = {} => listeners[p] = 0

\* An entry of the list stands for the identity: the same string up to case,
\* or in regex mode a pattern that matches it.
Listed(id, list, regex) ==
    \E x \in list : IF regex THEN Match(id, x) ELSE ToLowerCase(x) = ToLowerCase(id)

OnAllow(id) == Listed(id, config.allowlist \cup config.whitelist, config.allowlistRegex)
OnDeny(id) == Listed(id, config.denylist \cup config.blacklist, config.denylistRegex)
AllowEmpty == config.allowlist \cup config.whitelist = {}
DenyEmpty == config.denylist \cup config.blacklist = {}

\* C11: an identity that an advertisement has arrived under has been handed
\* to its dispatcher if and only if (it is on a non-empty allowlist, or the
\* allowlist is empty and the denylist is not) and it is not on the denylist.
C11_AllowDeny ==
    \A id \in TagIds :
        id \in seenIds =>
            ((stats[id].calls >= 1) <=>
                 /\ (~AllowEmpty /\ OnAllow(id)) \/ (AllowEmpty /\ ~DenyEmpty)
                 /\ ~OnDeny(id))

C11_Witness ==
    /\ \E id \in seenIds : OnAllow(id) /\ OnDeny(id) /\ stats[id].calls = 0
    /\ \E id \in seenIds : OnAllow(id) /\ ~OnDeny(id) /\ stats[id].calls >= 1

\* The manufacturer data has the expected length or more and carries the
\* company id, type and length markers of an iBeacon.
WellFormed(manufacturerData) ==
    \E data \in manufacturerData :
        /\ Len(data) >= 25
        /\ data[1] = 76 /\ data[2] = 0
        /\ data[3] = 2
        /\ data[4] = 21

\* C12 as stated: createTag yields a Beacon for well-formed manufacturer
\* data and a generic Tag for any other.
C12_Classification ==
    \A c \in created : (c.class = "IBeacon") <=> WellFormed(c.manufacturerData)

\* C12 amended: with iBeacon decoding enabled createTag yields a Beacon
\* exactly for well-formed manufacturer data; with it disabled it yields a
\* generic Tag for every advertisement.
C12_ClassificationWhenEnabled ==
    \A c \in created :
        (c.class = "IBeacon") <=> (config.processIBeacon /\ WellFormed(c.manufacturerData))

C12_Witness ==
    \E c \in created :
        /\ config.processIBeacon
        /\ WellFormed(c.manufacturerData)
        /\ \E data \in c.manufacturerData : Len(data) = 25
        /\ c.class = "IBeacon"

\* C13 as stated: the advertisements of a peripheral reach the signal filter
\* and the dispatcher in the order they arrived: none is handed on while an
\* earlier one of the same peripheral is suspended in its handshake.
C13_ArrivalOrder ==
    [][\A p \in Peripherals :
          attempts'[p].handed # attempts[p].handed
              => {t \in tasks' : t.tag.peripheralId = p} = {}]_vars

\* C14 as stated: while the cache maps a transport identity to a companion
\* identity, no observation is handed to the dispatcher and no event is
\* dispatched under the transport identity, and no handshake starts for it.
C14_Supersedes ==
    [][\A p \in Peripherals :
          NonNull(companionAppTags[p])
              => /\ stats'[p].calls = stats[p].calls
                 /\ stats'[p].dispatched = stats[p].dispatched
                 /\ attempts'[p].started = attempts[p].started]_vars

\* C15: the step that applies the first event of a device id creates its
\* sensor, its tracker, a battery sensor exactly if that event carries a
\* battery level, and one timeout check, and applies the event; every later
\* step keeps them as they are and creates nothing.
C15_CreatedOnce ==
    [][\A id \in TagIds :
          /\ (~sensors[id].exists /\ sensors'[id].exists)
                 => /\ sensors'[id].made = 1
                    /\ sensors'[id].tracker
                    /\ sensors'[id].interval = TimeoutTicks
                    /\ \E n \in Nodes :
                           /\ latest'[id][n] # {}
                           /\ \A x \in latest'[id][n] :
                                  /\ sensors'[id].battery = x.event.battery
                                  /\ sensors'[id].slots[n].age = 0
                                  /\ sensors'[id].slots[n].distance = x.event.distance
          /\ sensors[id].exists
                 => /\ sensors'[id].exists
                    /\ sensors'[id].made = sensors[id].made
                    /\ sensors'[id].tracker = sensors[id].tracker
                    /\ sensors'[id].battery = sensors[id].battery
                    /\ sensors'[id].interval # NoTimer]_vars

C15_Witness ==
    \E id \in TagIds :
        /\ sensors[id].exists
        /\ sensors[id].made = 1
        /\ sensors[id].battery
        /\ Reported(id) = Nodes
        /\ published[id] >= 2

\* A step that delivers an event to handleNewDistance and is no step of a
\* handshake: an event of the cluster bus, or a dispatch of a throttle in a
\* callback that neither starts nor ends an attempt.
DeliversEvent ==
    /\ applied' # {}
    /\ \A p \in Peripherals : /\ attempts'[p].started = attempts[p].started
                              /\ attempts'[p].ended = attempts[p].ended

\* The events applied in this step that name p as the peripheral of a
\* companion identity.
AppliedAppEvents(p) == {e \in applied' : e.isApp /\ e.peripheralId = p}

\* C16 as stated: delivering an event to handleNewDistance changes neither
\* the companion cache nor the companion denylist.
C16_CacheOwnership ==
    [][DeliversEvent => /\ companionAppTags' = companionAppTags
                        /\ companionAppDenylist' = companionAppDenylist]_vars

\* C16 amended: delivering an event changes the cache entry or the denylist
\* entry of a transport identity only if the event is flagged as a companion
\* identity of that peripheral; then the cache maps the peripheral to the
\* event's identity and the peripheral is off the denylist.
C16_OnlyAppEvents ==
    [][DeliversEvent =>
          \A p \in Peripherals :
              /\ (\/ companionAppTags'[p] # companionAppTags[p]
                  \/ (p \in companionAppDenylist') # (p \in companionAppDenylist))
                     => AppliedAppEvents(p) # {}
              /\ \A e \in AppliedAppEvents(p) :
                     /\ companionAppTags'[p] = e.tagId
                     /\ p \notin companionAppDenylist']_vars

C16_Witness ==
    \E p \in Peripherals :
        /\ remotes >= 1
        /\ NonNull(companionAppTags[p])
        /\ attempts[p].last = "connect timed out"
        /\ attempts[p].started = 1
        /\ p \notin companionAppDenylist
        /\ \E tm \in denyTimers : tm.id = p

\* The identity companion resolution gives a peripheral, by the cache after
\* the step.
ResolvedId(p) ==
    IF NonNull(companionAppTags'[p]) THEN companionAppTags'[p] ELSE p

\* The identities whose filter or throttle the step has used.
Keyed ==
    {id \in TagIds : \/ kalman'[id] # kalman[id]
                     \/ tagUpdaters'[id].exists # tagUpdaters[id].exists
                     \/ stats'[id].calls # stats[id].calls}

\* C17: a step that hands an advertisement of a peripheral to the signal
\* filter and the throttle uses the filter and the throttle of the identity
\* resolution gives the peripheral, of no other, and the advertisements
\* whose handshake is still under way are not among those handed on.
C17_ResolutionFirst ==
    [][\A p \in Peripherals :
          attempts'[p].handed # attempts[p].handed
              => /\ stats'[ResolvedId(p)].calls = stats[ResolvedId(p)].calls + 1
                 /\ kalman'[ResolvedId(p)] # {}
                 /\ tagUpdaters'[ResolvedId(p)].exists
                 /\ Keyed \subseteq {ResolvedId(p)}
                 /\ attempts'[p].handed + Cardinality({t \in tasks' : t.tag.id = p})
                        <= adverts']_vars

C17_Witness ==
    \E p \in Peripherals :
        /\ NonNull(companionAppTags[p])
        /\ stats[p].calls >= 1
        /\ stats[companionAppTags[p]].calls >= 1
        /\ kalman[companionAppTags[p]] # {}
        /\ attempts[p].ended >= 1
        /\ attempts[p].handed = adverts

\* The allow/deny decision for an identity, from the configured lists.
Passes(id) ==
    /\ (~AllowEmpty /\ OnAllow(id)) \/ (AllowEmpty /\ ~DenyEmpty)
    /\ ~OnDeny(id)

\* A step in which an advertisement of p comes to the allow/deny decision:
\* a callback that starts no handshake, or the end of a handshake.
ReachesGate(p) ==
    \/ adverts' # adverts /\ attempts'[p].started = attempts[p].started
    \/ attempts'[p].ended # attempts[p].ended

\* C18: a step in which an advertisement comes to the decision under an
\* identity that does not pass leaves the signal filters, the throttles, the
\* sensors and the numbers of dispatched and published events as they were
\* and hands no event to handleNewDistance.
C18_GateFrame ==
    [][\A p \in Peripherals :
          (ReachesGate(p) /\ ~Passes(ResolvedId(p)))
              => /\ kalman' = kalman
                 /\ tagUpdaters' = tagUpdaters
                 /\ sensors' = sensors
                 /\ published' = published
                 /\ stats' = stats
                 /\ applied' = {}
                 /\ ResolvedId(p) \in seenIds']_vars

C18_Witness ==
    \E p \in Peripherals :
        /\ ~Passes(p)
        /\ p \in seenIds
        /\ NonNull(companionAppTags[p])
        /\ Passes(companionAppTags[p])
        /\ stats[companionAppTags[p]].calls >= 1
        /\ kalman[p] = {}
        /\ ~tagUpdaters[p].exists
        /\ published[p] = 0

\* C19: for every identity the number of this node's events that were
\* applied to the local sensors equals the number of published events, and a
\* step that publishes an event publishes one, which it has applied to the
\* local sensor of the identity.
C19_DispatchPairing ==
    [][\A id \in TagIds :
          /\ stats'[id].applied = published'[id]
          /\ published'[id] # published[id]
                 => /\ published'[id] = published[id] + 1
                    /\ stats'[id].lastDispatch # {}
                    /\ stats'[id].lastDispatch \subseteq applied'
                    /\ \A e \in stats'[id].lastDispatch :
                           /\ e.tagId = id
                           /\ e.instanceName = InstanceName
                           /\ sensors'[id].slots[InstanceName].age = 0
                           /\ sensors'[id].slots[InstanceName].distance = e.distance]_vars

C19_Witness ==
    \E id \in TagIds :
        /\ published[id] = 2
        /\ stats[id].applied = 2
        /\ stats[id].lastDispatch \subseteq applied
        /\ stats[id].calls = 3
        /\ latest[id]["nodeB"] # {}

\* C20: between callbacks no transport identity is on the companion denylist
\* and has an entry, pending or resolved, in the companion cache.
C20_Exclusion ==
    \A p \in Peripherals :
        p \in companionAppDenylist => companionAppTags[p] = Undefined

C20_Witness ==
    \E p \in Peripherals :
        /\ p \in companionAppDenylist
        /\ companionAppTags[p] = Undefined
        /\ attempts[p].last = "connect timed out"
        /\ attempts[p].skipped >= 1
        /\ remotes >= 1

\* C21: handleNewState and handleNewAttributes for an entity id without a
\* registered config publish nothing and leave the registered configs
\* unchanged; a state update for a registered entity publishes exactly one
\* message, on the state topic of that entity.
Unknown(call) ==
    /\ call.handler \in {"handleNewState", "handleNewAttributes"}
    /\ ~call.registered

C21_DropsUnknown ==
    [][/\ Unknown(lastCall') =>
              /\ outbox' = <<>>
              /\ entityConfigs' = entityConfigs
       /\ (lastCall'.handler = "handleNewState" /\ lastCall'.registered) =>
              /\ Len(outbox') = 1
              /\ \A c \in entityConfigs[lastCall'.id] :
                     outbox'[1].topic = c.stateTopic
              /\ entityConfigs' = entityConfigs]_vars

\* A state update for an entity that was announced but is no Sensor, while
\* another entity is registered.
C21_Witness ==
    /\ lastCall.handler = "handleNewState"
    /\ ~lastCall.registered
    /\ lastCall.id \in announced
    /\ outbox = <<>>
    /\ \E c \in CombinedIds : entityConfigs[c] # {}

\* C22 as stated: for a registered entity every handleNewAttributes call, the
\* first included, is eventually followed by a publish on the attributes
\* topic of the entity, and a payload published there is the attributes of
\* the most recent call.
PublishedLatest ==
    \A i \in 1 .. Len(outbox) :
        outbox[i].topic[1] = "attributes" =>
            \A a \in attributeCalls[outbox[i].topic[2]].last :
                outbox[i].payload = FormatMessage(a)

C22_AttributesNotLost ==
    /\ []PublishedLatest
    /\ \A c \in CombinedIds :
           attributeCalls[c].awaiting ~> ~attributeCalls[c].awaiting
====
